---- MODULE Spec2Model ----
(***************************************************************************)
(* Model of common/logica_lib.py: the compile pipeline entry points        *)
(* (ParseOrExit, GetProgramOrExit, CompilePredicateFromString), the engine *)
(* executor RunQuery with its child-process I/O, and the dataframe         *)
(* executor RunQueryPandas with its statement splitting.                   *)
(*                                                                         *)
(* SQL text is a sequence of one-character strings.  The collaborators     *)
(* that live outside logica_lib.py (parser, compiler, engines, the child   *)
(* process) are nondeterministic: each call draws its outcome from the set *)
(* of outcomes the caller's code provides for.                             *)
(***************************************************************************)
EXTENDS Integers, Sequences, FiniteSets, TLC

\* ------------------------------------------------------------- bounds ----
MaxStmts == 2        \* statements per script
PipeBuf == 1         \* capacity of an OS pipe, in bytes
MaxOutLen == 2       \* characters of output a child process produces

\* --------------------------------------------------------- value sets ----
KnownEngines == {"bigquery", "sqlite", "psql", "trino", "presto", "duckdb"}

EngineIds == KnownEngines \cup {"mysql", "PSQL"}

EmptyMap == [k \in {} |-> ""]

SettingsSet ==
  { EmptyMap,
    [catalog |-> "hive"],
    [catalog |-> "hive", server |-> "http://trino:80"],
    [clingo |-> "True"],
    [clingo |-> "False"] }

\* An optional argument: {} is None, {v} is the value v.
None == {}

Some(v) == {v}

Unwrap(opt) == CHOOSE v \in opt : TRUE

\* os.environ.get('LOGICA_PSQL_CONNECTION'): unset, set to '', set to a DSN.
EnvValues == {"<unset>", "", "dbname=logica"}

OutputFormats == {"pretty", "csv"}

\* Python truthiness of the values the model uses.
Truthy(v) == v \notin {"<unset>", "", "False", "None", "0"}

Exceptions ==
  {"ParsingException", "RuleCompileException", "FunctorError",
   "TypeErrorCaughtException"}

\* ------------------------------------------------------------ SQL text ----
\* Characters: "a" is a one-byte letter, "E" a letter whose UTF-8 encoding
\* takes two bytes, "q" the quote that opens and closes a string literal.
Quote == "q"

Statements == { <<"a">>, <<"E">>, <<Quote, ";", Quote>> }

RECURSIVE Join(_, _)
Join(parts, sep) ==
  IF parts = <<>> THEN <<>>
  ELSE IF Len(parts) = 1 THEN parts[1]
  ELSE parts[1] \o sep \o Join(Tail(parts), sep)

StmtLists(n) == UNION { [1..k -> Statements] : k \in 1..n }

\* A script: its statements, and whether a ';' follows the last one.
Scripts(n) == [stmts : StmtLists(n), trailing : BOOLEAN]

Render(script) ==
  Join(script.stmts, <<";">>) \o (IF script.trailing THEN <<";">> ELSE <<>>)

\* parse.SplitRaw(s, separator): the pieces of s between the separators that
\* stand outside string literals; rejoining the pieces with the separator
\* gives s back.
RECURSIVE SplitFrom(_, _, _, _)
SplitFrom(s, sep, inQuote, cur) ==
  IF s = <<>> THEN <<cur>>
  ELSE LET c == Head(s) IN
    IF c = Quote THEN SplitFrom(Tail(s), sep, ~inQuote, Append(cur, c))
    ELSE IF c = sep /\ ~inQuote
      THEN <<cur>> \o SplitFrom(Tail(s), sep, FALSE, <<>>)
      ELSE SplitFrom(Tail(s), sep, inQuote, Append(cur, c))

SplitRaw(s, sep) == SplitFrom(s, sep, FALSE, <<>>)

\* Python's seq[:-1].
AllButLast(seq) == SubSeq(seq, 1, Len(seq) - 1)

\* Python's seq[-1], for a non-empty seq.
Last(seq) == seq[Len(seq)]

\* str.encode() / bytes.decode(), UTF-8.
EncodeChar(c) ==
  CASE c = "a" -> <<97>>
    [] c = "E" -> <<195, 169>>
    [] c = Quote -> <<39>>
    [] c = ";" -> <<59>>
    [] c = "\n" -> <<10>>

RECURSIVE Encode(_)
Encode(text) ==
  IF text = <<>> THEN <<>> ELSE EncodeChar(Head(text)) \o Encode(Tail(text))

DecodeError == <<"UnicodeDecodeError">>

RECURSIVE Decode(_)
Decode(bytes) ==
  IF bytes = <<>> THEN <<>>
  ELSE LET b == Head(bytes)
           one == CASE b = 97 -> "a" [] b = 39 -> Quote [] b = 59 -> ";"
                    [] b = 10 -> "\n" [] OTHER -> "?"
       IN IF b < 128
            THEN LET rest == Decode(Tail(bytes))
                 IN IF rest = DecodeError THEN DecodeError ELSE <<one>> \o rest
          ELSE IF b = 195 /\ Len(bytes) >= 2 /\ bytes[2] = 169
            THEN LET rest == Decode(Tail(Tail(bytes)))
                 IN IF rest = DecodeError THEN DecodeError ELSE <<"E">> \o rest
          ELSE DecodeError

\* What the spawned command line tool prints: a prefix of "EaEa...".
OutChar(i) == IF i % 2 = 1 THEN "E" ELSE "a"

OutTexts == { [i \in 1..n |-> OutChar(i)] : n \in 0..MaxOutLen }

\* -------------------------------------------------------------- state ----
VARIABLES
  pc,            \* the statement the running call has reached
  op,            \* the entry point that was called
  sql,           \* the SQL text in hand
  script,        \* the statements sql was written from
  engine,        \* the engine argument
  settings,      \* the settings argument (optional)
  outputFormat,  \* the output_format argument
  connection,    \* the connection argument (optional)
  receiver,      \* the sql_receiver argument (optional; its .sql field)
  annotations,   \* p.annotations of the compiled program
  statements,    \* RunQueryPandas' local list of statements
  stages,        \* the compile stages that have run, in order
  shown,         \* the diagnostics ShowMessage has printed, in order
  status,        \* "idle", "running", "returned", "raised" or "exited"
  exc,           \* the exception the call raised
  exitCode,      \* the status sys.exit was called with (-1: no exit)
  result,        \* the value the call returned
  env,           \* os.environ['LOGICA_PSQL_CONNECTION'] as the call read it
  effects,       \* processes spawned, connections opened, queries issued
  db,            \* the statements executed on the connection, in order
  comm           \* the pipes between this process and its child

vars ==
  <<pc, op, sql, script, engine, settings, outputFormat, connection, receiver,
    annotations, statements, stages, shown, status, exc, exitCode, result,
    env, effects, db, comm>>

args == <<op, sql, script, engine, settings, outputFormat>>

compileVars == <<annotations, stages, shown>>

pandasVars == <<connection, receiver, statements, db>>

NoResult == [kind |-> "none", text |-> <<>>, on |-> <<>>]

NoScript == [stmts |-> <<>>, trailing |-> FALSE]

NoAnnotations == [engine |-> "", blocks |-> None]

NoComm ==
  [inLeft |-> <<>>, stdinPipe |-> <<>>, stdinOpen |-> FALSE,
   childGot |-> <<>>, childEof |-> FALSE, childText |-> <<>>,
   childLeft |-> <<>>, childBurst |-> 0, stdoutPipe |-> <<>>,
   childExited |-> FALSE, outGot |-> <<>>, stdoutEof |-> FALSE]

Init ==
  /\ pc = "idle"
  /\ op = ""
  /\ sql = <<>>
  /\ script = NoScript
  /\ engine = ""
  /\ settings = None
  /\ outputFormat = "pretty"
  /\ connection = None
  /\ receiver = None
  /\ annotations = NoAnnotations
  /\ statements = <<>>
  /\ stages = <<>>
  /\ shown = <<>>
  /\ status = "idle"
  /\ exc = ""
  /\ exitCode = -1
  /\ result = NoResult
  /\ env = "<unread>"
  /\ effects = <<>>
  /\ db = <<>>
  /\ comm = NoComm

\* ---------------------------------------------------- how a call ends ----
Return(value) ==
  /\ pc' = "done"
  /\ status' = "returned"
  /\ result' = value
  /\ UNCHANGED <<exc, exitCode>>

Raise(exception) ==
  /\ pc' = "done"
  /\ status' = "raised"
  /\ exc' = exception
  /\ UNCHANGED <<result, exitCode>>

\* sys.exit(code)
SysExit(code) ==
  /\ pc' = "done"
  /\ status' = "exited"
  /\ exitCode' = code
  /\ UNCHANGED <<result, exc>>

Continue(next) ==
  /\ pc' = next
  /\ UNCHANGED <<status, result, exc, exitCode>>

Effect(kind, what) == [kind |-> kind, what |-> what]

\* ------------------------------------------------------------ RunQuery ----
\* settings = settings or {}
OrEmpty(opt) ==
  IF opt = None THEN EmptyMap
  ELSE IF DOMAIN Unwrap(opt) = {} THEN EmptyMap
  ELSE Unwrap(opt)

\* dict.get(key, default)
Get(map, key, default) == IF key \in DOMAIN map THEN map[key] ELSE default

\* The command line of each process-based engine; an argument built with
\* '%s' is the tuple of its pieces.
BigqueryArgv(fmt) ==
  << <<"bq">>, <<"query">>, <<"--use_legacy_sql=false">>, <<"--format=", fmt>> >>

PsqlArgv == << <<"psql">>, <<"--quiet">> >>

TrinoArgv(s) ==
  << <<"trino">>,
     <<"--catalog=", Get(s, "catalog", "memory")>>,
     <<"--server=", Get(s, "server", "http://localhost:8080")>>,
     <<"--output-format=ALIGNED">> >>

PrestoArgv(s) ==
  << <<"presto">>,
     <<"--catalog=", Get(s, "catalog", "memory")>>,
     <<"--server=", Get(s, "server", "http://localhost:8080")>>,
     <<"--file=/dev/stdin">>,
     <<"--output-format=ALIGNED">> >>

\* subprocess.Popen(argv, stdin=PIPE, stdout=PIPE): the child starts with
\* both pipes empty; what it will print, and how much of it before it first
\* reads, is the child's choice.
Popen(argv) ==
  /\ effects' = Append(effects, Effect("spawn", argv))
  /\ \E out \in OutTexts : \E k \in 0..Len(Encode(out)) :
       comm' = [NoComm EXCEPT !.inLeft = Encode(sql), !.stdinOpen = TRUE,
                              !.childText = out, !.childLeft = Encode(out),
                              !.childBurst = k]
  /\ Continue("communicate")

\* The native engine calls of RunQuery, each returning a table.
NativeReturn(calls) ==
  /\ effects' = effects \o calls
  /\ Return([kind |-> "table", text |-> sql, on |-> <<>>])
  /\ UNCHANGED comm

\* A guard that takes the native path for psql whatever the environment.
UsePsqlConnectionAlways(e, ev) == e = "psql"

\* The guard of line 78.
UsePsqlConnection(e, ev) == e = "psql" /\ Truthy(ev)

\* A chain whose last branch runs the default engine.
EngineBranchDefault(e) == IF e \in KnownEngines THEN e ELSE "bigquery"

\* The if/elif chain of lines 89-125: the branch an engine name selects.
EngineBranch(e) == IF e \in KnownEngines THEN e ELSE "else"

\* Lines 77-125: the dispatch on the engine name.  The environment is read
\* on line 78, and only when the engine is psql.
RunQuery_Dispatch ==
  /\ pc = "RunQuery"
  /\ \E ev \in (IF engine = "psql" THEN EnvValues ELSE {env}) :
       LET s == OrEmpty(settings)
           branch == EngineBranch(engine)
       IN
       /\ env' = ev
       /\ IF UsePsqlConnection(engine, ev)
            THEN NativeReturn(<<Effect("connect", << <<"psycopg2.connect", ev>> >>),
                               Effect("query", << <<"PostgresExecute">> >>)>>)
          ELSE IF branch = "bigquery" THEN Popen(BigqueryArgv(outputFormat))
          ELSE IF branch = "sqlite"
            THEN NativeReturn(<<Effect("query", << <<"sqlite3_logica.RunSQL">> >>)>>)
          ELSE IF branch = "psql" THEN Popen(PsqlArgv)
          ELSE IF branch = "trino" THEN Popen(TrinoArgv(s))
          ELSE IF branch = "presto" THEN Popen(PrestoArgv(s))
          ELSE IF branch = "duckdb"
            THEN NativeReturn(
                   <<Effect("connect", << <<"duckdb.connect">> >>)>>
                   \o (IF "clingo" \in DOMAIN s /\ Truthy(s["clingo"])
                         THEN <<Effect("connect", << <<"ConnectClingo">> >>)>>
                         ELSE <<>>)
                   \o <<Effect("query", << <<"connection.sql">> >>)>>)
          ELSE /\ Raise("AssertionError: Unknown engine")
               /\ UNCHANGED <<effects, comm>>
  /\ UNCHANGED <<args, compileVars, pandasVars>>

\* ------------------------------------- p.communicate(sql.encode()) ----
\* The parent writes the payload to the child's stdin while it reads the
\* child's stdout, closes stdin when the payload is written, reads stdout to
\* its end and waits for the child.
Communicating == pc = "communicate"

CommStep(next) ==
  /\ Communicating
  /\ comm' = next
  /\ UNCHANGED <<pc, status, result, exc, exitCode, args, compileVars,
                 pandasVars, env, effects>>

ParentWrite ==
  /\ comm.stdinOpen
  /\ comm.inLeft # <<>>
  /\ Len(comm.stdinPipe) < PipeBuf
  /\ CommStep([comm EXCEPT !.inLeft = Tail(@),
                           !.stdinPipe = Append(@, Head(comm.inLeft))])

ParentCloseStdin ==
  /\ comm.stdinOpen
  /\ comm.inLeft = <<>>
  /\ CommStep([comm EXCEPT !.stdinOpen = FALSE])

\* A parent that reads only once it has written everything.
ParentReadAfterWrite ==
  /\ ~comm.stdinOpen
  /\ ~comm.stdoutEof
  /\ comm.stdoutPipe # <<>>
  /\ CommStep([comm EXCEPT !.stdoutPipe = Tail(@),
                           !.outGot = Append(@, Head(comm.stdoutPipe))])

ParentRead ==
  /\ ~comm.stdoutEof
  /\ comm.stdoutPipe # <<>>
  /\ CommStep([comm EXCEPT !.stdoutPipe = Tail(@),
                           !.outGot = Append(@, Head(comm.stdoutPipe))])

ParentReadEof ==
  /\ ~comm.stdoutEof
  /\ comm.stdoutPipe = <<>>
  /\ comm.childExited
  /\ CommStep([comm EXCEPT !.stdoutEof = TRUE])

\* The child: it reads its input to the end, and between two reads it may
\* print any part of its output, blocking while the stdout pipe is full.
ChildRead ==
  /\ ~comm.childExited
  /\ ~comm.childEof
  /\ comm.childBurst = 0
  /\ comm.stdinPipe # <<>>
  /\ \E k \in 0..Len(comm.childLeft) :
       CommStep([comm EXCEPT !.stdinPipe = Tail(@),
                             !.childGot = Append(@, Head(comm.stdinPipe)),
                             !.childBurst = k])

ChildReadEof ==
  /\ ~comm.childExited
  /\ ~comm.childEof
  /\ comm.childBurst = 0
  /\ comm.stdinPipe = <<>>
  /\ ~comm.stdinOpen
  /\ CommStep([comm EXCEPT !.childEof = TRUE,
                           !.childBurst = Len(comm.childLeft)])

ChildWrite ==
  /\ ~comm.childExited
  /\ comm.childBurst > 0
  /\ Len(comm.stdoutPipe) < PipeBuf
  /\ CommStep([comm EXCEPT !.childLeft = Tail(@),
                           !.childBurst = @ - 1,
                           !.stdoutPipe = Append(@, Head(comm.childLeft))])

ChildExit ==
  /\ ~comm.childExited
  /\ comm.childEof
  /\ comm.childBurst = 0
  /\ CommStep([comm EXCEPT !.childExited = TRUE])

\* Lines 126-127: communicate returns once stdout is at its end and the child
\* has been waited for; RunQuery returns the decoded output.
RunQuery_Return ==
  /\ Communicating
  /\ ~comm.stdinOpen
  /\ comm.stdoutEof
  /\ comm.childExited
  /\ LET text == Decode(comm.outGot) IN
       IF text = DecodeError
         THEN Raise("UnicodeDecodeError")
         ELSE Return([kind |-> "text", text |-> text, on |-> <<>>])
  /\ UNCHANGED <<comm, args, compileVars, pandasVars, env, effects>>

CommNext ==
  \/ ParentWrite
  \/ ParentCloseStdin
  \/ ParentRead
  \/ ParentReadEof
  \/ ChildRead
  \/ ChildReadEof
  \/ ChildWrite
  \/ ChildExit
  \/ RunQuery_Return

\* ------------------------------------------------ the compile pipeline ----
\* What a stage of the compiler does when called: it returns, or it raises
\* one of the exceptions logica_lib.py has handlers for.
Outcomes == {"ok"} \cup Exceptions

ParseOutcomes == {"ok", "ParsingException"}

\* What FormattedPredicateSql returns: a script that ends with ';'.
CompiledScripts(n) == { sc \in Scripts(n) : sc.trailing }

\* p.annotations: what Engine() returns, and annotations['@Engine'] when the
\* program has one (a dict from engine name to that engine's settings).
AnnBlocks ==
  { None,
    Some([k \in {} |-> EmptyMap]),
    Some([trino |-> [catalog |-> "hive"]]),
    Some([duckdb |-> [clingo |-> "True"]]),
    Some([trino |-> [catalog |-> "hive"],
          presto |-> [catalog |-> "hive", server |-> "http://trino:80"]]) }

Annotations == [engine : EngineIds, blocks : AnnBlocks]

Ran(stage) == stages' = Append(stages, stage)

\* exception.ShowMessage()
ShowMessage(exception) == shown' = Append(shown, exception)

\* Lines 194-195.
HandleException(exception) == SysExit(1)

\* A ParseOrExit that shows the parse error and goes on.
ParseOrExit_NoExit ==
  /\ pc = "ParseOrExit"
  /\ Ran("Parse")
  /\ \E r \in ParseOutcomes :
       /\ IF r = "ok" THEN UNCHANGED shown ELSE ShowMessage(r)
       /\ IF op = "ParseOrExit"
            THEN Return([kind |-> "rules", text |-> <<>>, on |-> <<>>])
            ELSE Continue("GetProgramOrExit")
  /\ UNCHANGED <<args, annotations, pandasVars, env, effects, comm>>

\* Lines 44-56.
ParseOrExit ==
  /\ pc = "ParseOrExit"
  /\ Ran("Parse")
  /\ \E r \in ParseOutcomes :
       IF r = "ok"
         THEN /\ UNCHANGED shown
              /\ IF op = "ParseOrExit"
                   THEN Return([kind |-> "rules", text |-> <<>>, on |-> <<>>])
                   ELSE Continue("GetProgramOrExit")
         ELSE /\ ShowMessage(r)
              /\ SysExit(1)
  /\ UNCHANGED <<args, annotations, pandasVars, env, effects, comm>>

\* The exceptions GetProgramOrExit has an except clause for (lines 64-69).
GetProgramOrExit_Catches == {"RuleCompileException", "FunctorError"}

\* Lines 62-70, after the call of ParseOrExit on line 61.
GetProgramOrExit ==
  /\ pc = "GetProgramOrExit"
  /\ Ran("BuildProgram")
  /\ \E r \in Outcomes :
       IF r = "ok"
         THEN /\ UNCHANGED shown
              /\ IF op = "GetProgramOrExit"
                   THEN Return([kind |-> "program", text |-> <<>>, on |-> <<>>])
                   ELSE Continue(op)
         ELSE IF r \in GetProgramOrExit_Catches
           THEN /\ ShowMessage(r)
                /\ SysExit(1)
           ELSE /\ UNCHANGED shown
                /\ Raise(r)
  /\ UNCHANGED <<args, annotations, pandasVars, env, effects, comm>>

\* A resolver that takes the first settings block there is.
ResolveSettingsAnyBlock(ann) ==
  IF ann.blocks # None /\ DOMAIN Unwrap(ann.blocks) # {}
    THEN Unwrap(ann.blocks)[CHOOSE e \in DOMAIN Unwrap(ann.blocks) : TRUE]
    ELSE EmptyMap

\* Lines 138-142.
ResolveSettings(ann) ==
  IF ann.blocks # None /\ ann.engine \in DOMAIN Unwrap(ann.blocks)
    THEN Unwrap(ann.blocks)[ann.engine]
    ELSE EmptyMap

\* p.FormattedPredicateSql(predicate) then p.annotations.Engine(), outside
\* any try: the first of the two that raises ends the call.
FormatAndResolve(fr, er, sc, ann, next) ==
  IF fr # "ok"
    THEN /\ Ran("FormatSql")
         /\ Raise(fr)
         /\ UNCHANGED <<sql, script, engine, annotations>>
  ELSE IF er # "ok"
    THEN /\ stages' = stages \o <<"FormatSql", "ResolveEngine">>
         /\ Raise(er)
         /\ UNCHANGED <<sql, script, engine, annotations>>
  ELSE /\ stages' = stages \o <<"FormatSql", "ResolveEngine">>
       /\ script' = sc
       /\ sql' = Render(sc)
       /\ annotations' = ann
       /\ engine' = ann.engine
       /\ Continue(next)

\* Lines 136-144, after the call of GetProgramOrExit.
RunPredicate ==
  /\ pc = "RunPredicate"
  /\ \E fr \in Outcomes, er \in Outcomes, sc \in CompiledScripts(1),
        ann \in Annotations :
       /\ FormatAndResolve(fr, er, sc, ann, "RunQuery")
       /\ settings' = IF fr = "ok" /\ er = "ok"
                        THEN Some(ResolveSettings(ann)) ELSE settings
  /\ UNCHANGED <<op, outputFormat, shown, pandasVars, env, effects, comm>>

\* Lines 184-186, after the call of GetProgramOrExit.
RunPredicateToPandas ==
  /\ pc = "RunPredicateToPandas"
  /\ \E fr \in Outcomes, er \in Outcomes, sc \in CompiledScripts(MaxStmts),
        e \in EngineIds :
       FormatAndResolve(fr, er, sc, [engine |-> e, blocks |-> None],
                        "RunQueryPandas")
  /\ UNCHANGED <<op, settings, outputFormat, shown, pandasVars, env, effects,
                 comm>>

\* Lines 201-205: the first try of CompilePredicateFromString.
CompilePredicateFromString_Parse ==
  /\ pc = "CompilePredicateFromString"
  /\ Ran("Parse")
  /\ \E r \in ParseOutcomes :
       IF r = "ok"
         THEN /\ UNCHANGED shown
              /\ Continue("CompilePredicateFromString_Build")
         ELSE /\ ShowMessage(r)
              /\ HandleException(r)
  /\ UNCHANGED <<args, annotations, pandasVars, env, effects, comm>>

\* The stages that have run when the stages before `failed` returned.
StagesUpTo(failed) ==
  CASE failed = 1 -> <<"BuildProgram">>
    [] failed = 2 -> <<"BuildProgram", "FormatSql">>
    [] OTHER -> <<"BuildProgram", "FormatSql", "ResolveEngine">>

\* Lines 207-223: the second try; every exception of the three calls has an
\* except clause that shows it and hands it to HandleException.
CompilePredicateFromString_Build ==
  /\ pc = "CompilePredicateFromString_Build"
  /\ \E failed \in 1..4, r \in Exceptions, sc \in CompiledScripts(MaxStmts),
        e \in EngineIds :
       /\ stages' = stages \o StagesUpTo(failed)
       /\ IF failed <= 3
            THEN /\ ShowMessage(r)
                 /\ HandleException(r)
                 /\ UNCHANGED <<sql, script, engine, annotations>>
            ELSE /\ r = "ParsingException"
                 /\ UNCHANGED shown
                 /\ script' = sc
                 /\ sql' = Render(sc)
                 /\ annotations' = [engine |-> e, blocks |-> None]
                 /\ engine' = e
                 /\ IF op = "CompilePredicateFromString"
                      THEN Return([kind |-> "compiled", text |-> Render(sc),
                                   on |-> <<>>])
                      ELSE Continue("RunPredicateFromString")
  /\ UNCHANGED <<op, settings, outputFormat, pandasVars, env, effects, comm>>

\* Lines 233-236, after the call of CompilePredicateFromString.
RunPredicateFromString ==
  /\ pc = "RunPredicateFromString"
  /\ receiver' = IF receiver # None THEN Some(sql) ELSE receiver
  /\ Continue("RunQueryPandas")
  /\ UNCHANGED <<args, compileVars, connection, statements, db, env, effects,
                 comm>>

\* ------------------------------------------------------ RunQueryPandas ----
\* str.strip() of the line breaks around a statement.
RECURSIVE LStrip(_)
LStrip(text) ==
  IF text # <<>> /\ Head(text) = "\n" THEN LStrip(Tail(text)) ELSE text

\* connection.executescript(text): sqlite runs the statements of the text
\* one after the other; an empty statement runs nothing.
ExecuteScript(text) ==
  LET parts == SplitRaw(text, ";")
      kept == { i \in 1..Len(parts) : LStrip(parts[i]) # <<>> }
      RECURSIVE Pick(_)
      Pick(i) ==
        IF i > Len(parts) THEN <<>>
        ELSE (IF i \in kept THEN <<LStrip(parts[i])>> ELSE <<>>) \o Pick(i + 1)
  IN Pick(1)

\* A default connection for whatever engine comes without one.
DefaultConnectionAny(conn, e) ==
  IF conn = None /\ e = "duckdb" THEN Some("duckdb.connect")
  ELSE IF conn = None THEN Some("SqliteConnect")
  ELSE conn

\* Lines 150-154: the connection the call works on; sqlite and duckdb open
\* one when none is given.
DefaultConnection(conn, e) ==
  IF conn = None /\ e = "sqlite" THEN Some("SqliteConnect")
  ELSE IF conn = None /\ e = "duckdb" THEN Some("duckdb.connect")
  ELSE conn

\* A frame: the statement it is the result of, and the statements that had
\* run on the connection before it.
Frame(stmt, before) == [kind |-> "frame", text |-> stmt, on |-> before]

\* Lines 147-177.
RunQueryPandas ==
  /\ pc = "RunQueryPandas"
  /\ LET conn == DefaultConnection(connection, engine)
         opened == IF conn # connection
                     THEN <<Effect("connect", << <<Unwrap(conn)>> >>)>>
                     ELSE <<>>
         split == AllButLast(SplitRaw(sql, ";"))
         before == IF Len(split) > 1
                     THEN db \o ExecuteScript(Join(AllButLast(split),
                                                   <<";", "\n">>))
                     ELSE db
     IN
     /\ connection' = conn
     /\ IF conn = None
          THEN /\ Raise("AssertionError: Connection is required")
               /\ UNCHANGED <<effects, statements, db>>
        ELSE IF engine = "bigquery"
          THEN /\ effects' = effects \o opened
                     \o <<Effect("query", << <<"connection.query">> >>)>>
               /\ Return(Frame(sql, db))
               /\ UNCHANGED <<statements, db>>
        ELSE IF engine = "psql"
          THEN /\ effects' = effects \o opened
                     \o <<Effect("query", << <<"cursor.execute">> >>)>>
               /\ Return(Frame(sql, db))
               /\ UNCHANGED <<statements, db>>
        ELSE IF engine = "duckdb"
          THEN /\ effects' = effects \o opened
                     \o <<Effect("query", << <<"connection.sql">> >>)>>
               /\ Return(Frame(sql, db))
               /\ UNCHANGED <<statements, db>>
        ELSE IF engine = "sqlite"
          THEN /\ statements' = split
               /\ IF split = <<>>
                    THEN /\ Raise("IndexError")
                         /\ effects' = effects \o opened
                         /\ UNCHANGED db
                    ELSE /\ effects' = effects \o opened
                           \o (IF Len(split) > 1
                                 THEN <<Effect("query",
                                               << <<"executescript">> >>)>>
                                 ELSE <<>>)
                           \o <<Effect("query", << <<"read_sql">> >>)>>
                         /\ db' = Append(before, Last(split))
                         /\ Return(Frame(Last(split), before))
        ELSE /\ Raise("Exception: Logica only supports")
             /\ effects' = effects \o opened
             /\ UNCHANGED <<statements, db>>
  /\ UNCHANGED <<args, compileVars, receiver, env, comm>>

\* ------------------------------------------------------- entry points ----
Call(name, first) ==
  /\ pc = "idle"
  /\ op' = name
  /\ pc' = first
  /\ status' = "running"
  /\ UNCHANGED <<result, exc, exitCode, compileVars, statements, db, env,
                 effects, comm>>

\* RunQuery(sql, settings, output_format, engine)
CallRunQuery ==
  /\ Call("RunQuery", "RunQuery")
  /\ \E sc \in Scripts(1) :
       /\ script' = sc
       /\ sql' = Render(sc)
  /\ engine' \in EngineIds
  /\ settings' \in {None} \cup { Some(s) : s \in SettingsSet }
  /\ outputFormat' \in OutputFormats
  /\ UNCHANGED <<connection, receiver>>

\* RunQueryPandas(sql, engine, connection)
CallRunQueryPandas ==
  /\ Call("RunQueryPandas", "RunQueryPandas")
  /\ \E sc \in Scripts(MaxStmts) :
       /\ script' = sc
       /\ sql' = Render(sc)
  /\ engine' \in EngineIds
  /\ connection' \in {None, Some("connection")}
  /\ UNCHANGED <<settings, outputFormat, receiver>>

\* ParseOrExit(filename), GetProgramOrExit(filename)
CallCompileOrExit ==
  /\ \E name \in {"ParseOrExit", "GetProgramOrExit"} :
       Call(name, "ParseOrExit")
  /\ UNCHANGED <<sql, script, engine, settings, outputFormat, connection,
                 receiver>>

\* RunPredicate(filename, predicate, output_format)
CallRunPredicate ==
  /\ Call("RunPredicate", "ParseOrExit")
  /\ outputFormat' \in OutputFormats
  /\ UNCHANGED <<sql, script, engine, settings, connection, receiver>>

\* RunPredicateToPandas(filename, predicate, connection)
CallRunPredicateToPandas ==
  /\ Call("RunPredicateToPandas", "ParseOrExit")
  /\ connection' \in {None, Some("connection")}
  /\ UNCHANGED <<sql, script, engine, settings, outputFormat, receiver>>

\* CompilePredicateFromString(logica_string, predicate_name)
CallCompilePredicateFromString ==
  /\ Call("CompilePredicateFromString", "CompilePredicateFromString")
  /\ UNCHANGED <<sql, script, engine, settings, outputFormat, connection,
                 receiver>>

\* RunPredicateFromString(logica_string, predicate_name, connection,
\* sql_receiver); a new SqlReceiver has sql = None.
CallRunPredicateFromString ==
  /\ Call("RunPredicateFromString", "CompilePredicateFromString")
  /\ connection' \in {None, Some("connection")}
  /\ receiver' \in {None, Some(<<"None">>)}
  /\ UNCHANGED <<sql, script, engine, settings, outputFormat>>

Next ==
  \/ CallRunQuery
  \/ CallRunQueryPandas
  \/ CallCompileOrExit
  \/ CallRunPredicate
  \/ CallRunPredicateToPandas
  \/ CallCompilePredicateFromString
  \/ CallRunPredicateFromString
  \/ ParseOrExit
  \/ GetProgramOrExit
  \/ RunPredicate
  \/ RunPredicateToPandas
  \/ CompilePredicateFromString_Parse
  \/ CompilePredicateFromString_Build
  \/ RunPredicateFromString
  \/ RunQuery_Dispatch
  \/ CommNext
  \/ RunQueryPandas

Spec == Init /\ [][Next]_vars

\* ============================================================ properties ====
Done == pc = "done"

\* RunQuery has been entered, directly or from RunPredicate.
RunQueryEntered ==
  /\ pc \in {"RunQuery", "communicate", "done"}
  /\ \/ op = "RunQuery"
     \/ op = "RunPredicate" /\ annotations.engine # ""

\* RunQueryPandas has been entered, directly or from a caller.
PandasEntered ==
  /\ pc \in {"RunQueryPandas", "done"}
  /\ \/ op = "RunQueryPandas"
     \/ /\ op \in {"RunPredicateToPandas", "RunPredicateFromString"}
        /\ annotations.engine # ""

Count(kind) == Cardinality({ i \in 1..Len(effects) : effects[i].kind = kind })

\* A compile stage has failed in this call.
CompileFailed == shown # <<>> \/ (status = "raised" /\ exc \in Exceptions)

\* The failures this call has reported: diagnostics shown, exception raised.
Reported == Len(shown) + (IF status = "raised" /\ exc \in Exceptions THEN 1 ELSE 0)

StageOrder == <<"Parse", "BuildProgram", "FormatSql", "ResolveEngine">>

InOrder(run) ==
  /\ Len(run) <= Len(StageOrder)
  /\ \A i \in 1..Len(run) : run[i] = StageOrder[i]

\* C1: RunQuery with an engine name outside the six known ones, whatever the
\* settings, ends with the "Unknown engine" assertion error, and on the way
\* spawns no process and makes no native call or connection.
C1_UnknownEngineFailsFast ==
  (RunQueryEntered /\ engine \notin KnownEngines) =>
    /\ effects = <<>>
    /\ comm = NoComm
    /\ pc # "communicate"
    /\ Done => (status = "raised" /\ exc = "AssertionError: Unknown engine")

\* C1 is exercised: RunQuery("mysql") with settings given has ended in the
\* assertion error.
C1_Witness ==
  /\ RunQueryEntered
  /\ Done
  /\ engine = "mysql"
  /\ settings = Some([catalog |-> "hive"])
  /\ exc = "AssertionError: Unknown engine"

\* C2: the compile stages of a call run in the order Parse, BuildProgram,
\* FormatSql, ResolveEngine; once a stage has failed no further stage runs
\* and nothing more is reported; a call reports at most one failure.
C2_StagesInOrderStopAtFirstFailure ==
  [][ /\ InOrder(stages')
      /\ Reported' <= 1
      /\ CompileFailed => (stages' = stages /\ shown' = shown /\ exc' = exc) ]_vars

\* C2 is exercised: RunPredicate whose parse failed has exited with Parse the
\* only stage run.
C2_Witness ==
  /\ op = "RunPredicate"
  /\ Done
  /\ status = "exited"
  /\ shown = <<"ParsingException">>
  /\ stages = <<"Parse">>

\* C5 as claimed: RunQuery on psql with LOGICA_PSQL_CONNECTION unset raises
\* an error and spawns no process and makes no native call.
C5_Claimed ==
  (RunQueryEntered /\ engine = "psql" /\ env = "<unset>") =>
    /\ effects = <<>>
    /\ Done => status = "raised"

\* C5 amended: RunQuery on psql with LOGICA_PSQL_CONNECTION unset or empty
\* raises no error; it spawns exactly one child process, psql --quiet, makes
\* no native call or connection, and returns the child's decoded output.
C5_PsqlWithoutConnectionSpawnsCli ==
  (RunQueryEntered /\ engine = "psql" /\ env \in {"<unset>", ""}) =>
    /\ effects = <<Effect("spawn", PsqlArgv)>>
    /\ status # "raised"
    /\ Done => (status = "returned" /\ result.kind = "text")

\* C5 is exercised: RunQuery on psql with the variable unset has returned
\* the output of the one psql process it spawned.
C5_Witness ==
  /\ RunQueryEntered
  /\ engine = "psql"
  /\ env = "<unset>"
  /\ Done
  /\ status = "returned"
  /\ effects = <<Effect("spawn", PsqlArgv)>>

\* C9: RunPredicate hands RunQuery the engine Engine() returns, and as
\* settings the block annotations['@Engine'] holds under that engine's name,
\* unmodified, or the empty mapping when there is no such block; the block of
\* another engine is never used.
C9_SettingsAreTheEnginesBlock ==
  (op = "RunPredicate" /\ RunQueryEntered) =>
    /\ engine = annotations.engine
    /\ \A b \in annotations.blocks :
         /\ engine \in DOMAIN b => settings = Some(b[engine])
         /\ engine \notin DOMAIN b => settings = Some(EmptyMap)
    /\ annotations.blocks = None => settings = Some(EmptyMap)

\* C9 is exercised: the program has blocks for trino and presto, the engine
\* is trino, and RunQuery got the trino block.
C9_Witness ==
  /\ op = "RunPredicate"
  /\ RunQueryEntered
  /\ Done
  /\ engine = "trino"
  /\ annotations.blocks # None
  /\ DOMAIN Unwrap(annotations.blocks) = {"trino", "presto"}
  /\ settings = Some([catalog |-> "hive"])

\* The engines RunQueryPandas has a branch for.
PandasEngines == {"bigquery", "psql", "duckdb", "sqlite"}

\* C3 as claimed: on sqlite, for a script of N >= 1 statements, RunQueryPandas
\* executes statements 1..N-1 once each, in order, then statement N, and
\* returns the frame of statement N evaluated after statements 1..N-1.
C3_Claimed ==
  (PandasEntered /\ Done /\ engine = "sqlite") =>
    LET n == Len(script.stmts) IN
    /\ status = "returned"
    /\ db = script.stmts
    /\ result = Frame(script.stmts[n], SubSeq(script.stmts, 1, n - 1))

\* C4 as claimed: on sqlite, the statements RunQueryPandas splits a script
\* into are the script's statements, in order, whether or not the script ends
\* with ';'.
C4_Claimed ==
  (PandasEntered /\ Done /\ engine = "sqlite") =>
    /\ statements = script.stmts
    /\ Join(statements, <<";">>) = Join(script.stmts, <<";">>)

\* C6 as claimed: in CompilePredicateFromString and RunPredicateFromString a
\* compile failure is shown and then returned to the caller; the process does
\* not exit and no query is executed.
C6_Claimed ==
  (op \in {"CompilePredicateFromString", "RunPredicateFromString"}
   /\ Done /\ CompileFailed) =>
    /\ Len(shown) = 1
    /\ status = "returned"
    /\ exitCode = -1
    /\ effects = <<>>

\* C7 as claimed: in ParseOrExit, GetProgramOrExit, RunPredicate and
\* RunPredicateToPandas every compile failure, of any kind and from any stage,
\* is shown and then ends the process with exit status 1; no query is
\* executed.
C7_Claimed ==
  (op \in {"ParseOrExit", "GetProgramOrExit", "RunPredicate",
           "RunPredicateToPandas"}
   /\ Done /\ CompileFailed) =>
    /\ Len(shown) = 1
    /\ status = "exited"
    /\ exitCode = 1
    /\ effects = <<>>

\* C8 as claimed: RunQueryPandas with an engine it has no branch for ends in
\* the unsupported-engine error whether or not a connection is given, and
\* issues no query.
C8_Claimed ==
  (PandasEntered /\ Done /\ engine \notin PandasEngines) =>
    /\ status = "raised"
    /\ exc = "Exception: Logica only supports"
    /\ Count("query") = 0

\* C8 amended: RunQueryPandas with an engine it has no branch for always ends
\* in an error, opens no connection and issues no query; the error is the
\* unsupported-engine exception when a connection is given, and the
\* "Connection is required" assertion error when none is.
C8_UnsupportedEngineOrConnectionRequired ==
  (PandasEntered /\ Done /\ engine \notin PandasEngines) =>
    /\ status = "raised"
    /\ effects = <<>>
    /\ db = <<>>
    /\ connection # None => exc = "Exception: Logica only supports"
    /\ connection = None => exc = "AssertionError: Connection is required"

\* C8 is exercised: RunQueryPandas on trino without a connection has ended in
\* the assertion error.
C8_Witness ==
  /\ PandasEntered
  /\ Done
  /\ engine = "trino"
  /\ connection = None
  /\ exc = "AssertionError: Connection is required"

\* The engines RunQuery runs as a child process, given the environment read.
ProcessBased ==
  \/ engine \in {"bigquery", "trino", "presto"}
  \/ engine = "psql" /\ env \in {"<unset>", ""}

\* C10: for a process-based engine RunQuery spawns exactly one child and never
\* a second; while communicate runs, parent and child are never both blocked;
\* and when RunQuery returns, the child has received the whole encoded SQL,
\* its stdin is closed, it has exited, and the value returned is everything
\* it printed, decoded.
C10_OneChildNoDeadlockWholeOutput ==
  /\ Count("spawn") <= 1
  /\ Communicating => ENABLED CommNext
  /\ (RunQueryEntered /\ ProcessBased /\ Done) =>
       /\ status = "returned"
       /\ Count("spawn") = 1
       /\ comm.childGot = Encode(sql)
       /\ ~comm.stdinOpen
       /\ comm.childExited
       /\ comm.stdoutPipe = <<>>
       /\ result = [kind |-> "text", text |-> comm.childText, on |-> <<>>]

\* C10 is exercised: a call has returned with both the payload and the
\* output larger than a pipe holds.
C10_Witness ==
  /\ RunQueryEntered
  /\ Done
  /\ engine = "presto"
  /\ status = "returned"
  /\ Len(Encode(sql)) > PipeBuf
  /\ Len(Encode(comm.childText)) > PipeBuf
  /\ result.text = comm.childText
  /\ Count("spawn") = 1

====
